---- MODULE Spec2Model ----
(***************************************************************************)
(* Model of the SwiftStorage reconciler                                    *)
(* (controllers/swiftstorage_controller.go).                               *)
(*                                                                         *)
(* The cluster holds SwiftStorage records (the desired state) and          *)
(* StatefulSets (the live objects).  A reconciliation pass for one         *)
(* identity is Reconcile(): Get the SwiftStorage, build the helper,        *)
(* synthesize the StatefulSet with getStorageStatefulSet, hand it to       *)
(* statefulset.CreateOrPatch, and translate what that returns into the     *)
(* (ctrl.Result, error) pair given back to the work queue.  The cluster    *)
(* API calls of one pass are separate steps, so that users, the garbage    *)
(* collector and other writers interleave with a pass exactly where the    *)
(* code suspends.                                                          *)
(***************************************************************************)
EXTENDS Integers, Sequences, FiniteSets, TLC

\* ------------------------------------------------------------------------
\* Bounds of the model
\* ------------------------------------------------------------------------

\* Largest replica count a user writes into a SwiftStorage.
MaxReplicas == 3

\* Number of external events (user updates and deletions, edits of a
\* StatefulSet by other writers) in one behaviour.
MaxEvents == 2

\* ------------------------------------------------------------------------
\* Values
\* ------------------------------------------------------------------------

\* The absent object (a nil pointer, a NotFound answer).
None == [Kind |-> "None"]

\* Go's nil error.
Nil == "nil"

Namespaces == {"ns1", "ns2"}
Names == {"a", "b"}

\* Every namespaced name a StatefulSet can be stored under.
Keys == [Namespace : Namespaces, Name : Names]

\* The identities of the SwiftStorage records (req.NamespacedName).
Ids == {[Namespace |-> "ns1", Name |-> "a"], [Namespace |-> "ns2", Name |-> "b"]}

\* int32 replica counts a user may write; the controller is given negative
\* ones as well, validation being the webhook's business.
ReplicaValues == {-1, MaxReplicas}

\* Two settings of the image, storage class and ring references.  The
\* second names as ring config map the config map "a-config-data", which is
\* also the one getStorageVolumes derives from the name of SwiftStorage a:
\* nothing keeps a user from writing that name.
Profiles ==
    { [ContainerImageAccount |-> "A", ContainerImageContainer |-> "B",
       ContainerImageObject |-> "C", ContainerImageProxy |-> "P",
       ContainerImageMemcached |-> "M", StorageClassName |-> "fast",
       SwiftRingConfigMap |-> "ring-1"],
      [ContainerImageAccount |-> "A2", ContainerImageContainer |-> "B2",
       ContainerImageObject |-> "C2", ContainerImageProxy |-> "P2",
       ContainerImageMemcached |-> "M2", StorageClassName |-> "slow",
       SwiftRingConfigMap |-> "a-config-data"] }

\* swiftv1beta1.SwiftStorageSpec values, as read through instance.Spec.
SpecValues ==
    { [Replicas |-> r,
       ContainerImageAccount |-> p.ContainerImageAccount,
       ContainerImageContainer |-> p.ContainerImageContainer,
       ContainerImageObject |-> p.ContainerImageObject,
       ContainerImageProxy |-> p.ContainerImageProxy,
       ContainerImageMemcached |-> p.ContainerImageMemcached,
       StorageClassName |-> p.StorageClassName,
       SwiftRingConfigMap |-> p.SwiftRingConfigMap] :
      r \in ReplicaValues, p \in Profiles }

\* The spec every SwiftStorage starts with.
InitialSpec ==
    CHOOSE s \in SpecValues :
        s.Replicas = MaxReplicas /\ s.StorageClassName = "fast"

\* The SwiftStorage object of identity id with spec s, as r.Get fills it in.
SwiftStorage(id, s) == [Name |-> id.Name, Namespace |-> id.Namespace, Spec |-> s]

\* Errors of the cluster API other than NotFound and Conflict.
TransportErrors == {"Timeout"}

\* ------------------------------------------------------------------------
\* Values of package swift, used by name in the controller
\* ------------------------------------------------------------------------

GetLabelsStorage == "swift.GetLabelsStorage()"
GetSecurityContext == "swift.GetSecurityContext()"
RunAsUser == "swift.RunAsUser"
AccountServerPort == "swift.AccountServerPort"
ContainerServerPort == "swift.ContainerServerPort"
ObjectServerPort == "swift.ObjectServerPort"
RsyncPort == "swift.RsyncPort"
MemcachedPort == "swift.MemcachedPort"

\* ------------------------------------------------------------------------
\* The synthesizer: getStorageStatefulSet and its helpers
\* ------------------------------------------------------------------------

getStorageVolumes(instance) ==
    << [Name |-> "srv",
        VolumeSource |-> [Kind |-> "PersistentVolumeClaim", Ref |-> "srv"]],
       [Name |-> "config-data",
        VolumeSource |-> [Kind |-> "ConfigMap",
                          Ref |-> instance.Name \o "-config-data"]],
       [Name |-> "ring-data",
        VolumeSource |-> [Kind |-> "ConfigMap",
                          Ref |-> instance.Spec.SwiftRingConfigMap]],
       [Name |-> "config-data-merged",
        VolumeSource |-> [Kind |-> "EmptyDir", Ref |-> ""]] >>

getStorageVolumeMounts ==
    << [Name |-> "srv", MountPath |-> "/srv/node/d1", ReadOnly |-> FALSE],
       [Name |-> "config-data", MountPath |-> "/var/lib/config-data/default",
        ReadOnly |-> TRUE],
       [Name |-> "ring-data", MountPath |-> "/var/lib/config-data/rings",
        ReadOnly |-> TRUE],
       [Name |-> "config-data-merged", MountPath |-> "/etc/swift",
        ReadOnly |-> FALSE] >>

getPorts(port, name) == << [ContainerPort |-> port, Name |-> name] >>

\* A corev1.Container as the controller fills it in.
Container(name, image, ports, mounts, command) ==
    [Name |-> name, Image |-> image, ImagePullPolicy |-> "IfNotPresent",
     SecurityContext |-> GetSecurityContext, Ports |-> ports,
     VolumeMounts |-> mounts, Command |-> command]

getStorageInitContainers(swiftstorage) ==
    << Container("swift-init", swiftstorage.Spec.ContainerImageAccount, << >>,
                 getStorageVolumeMounts,
                 << "/bin/sh", "-c",
                    "cp -t /etc/swift/ /var/lib/config-data/default/* /var/lib/config-data/rings/*" >>) >>

getStorageContainers(swiftstorage) ==
    LET s == swiftstorage.Spec
        m == getStorageVolumeMounts
    IN << Container("account-server", s.ContainerImageAccount,
                    getPorts(AccountServerPort, "account"), m,
                    << "/usr/bin/swift-account-server", "/etc/swift/account-server.conf", "-v" >>),
          Container("account-replicator", s.ContainerImageAccount, << >>, m,
                    << "/usr/bin/swift-account-replicator", "/etc/swift/account-server.conf", "-v" >>),
          Container("account-auditor", s.ContainerImageAccount, << >>, m,
                    << "/usr/bin/swift-account-auditor", "/etc/swift/account-server.conf", "-v" >>),
          Container("account-reaper", s.ContainerImageAccount, << >>, m,
                    << "/usr/bin/swift-account-reaper", "/etc/swift/account-server.conf", "-v" >>),
          Container("container-server", s.ContainerImageContainer,
                    getPorts(ContainerServerPort, "container"), m,
                    << "/usr/bin/swift-container-server", "/etc/swift/container-server.conf", "-v" >>),
          Container("container-replicator", s.ContainerImageContainer, << >>, m,
                    << "/usr/bin/swift-container-replicator", "/etc/swift/container-server.conf", "-v" >>),
          Container("container-auditor", s.ContainerImageContainer, << >>, m,
                    << "/usr/bin/swift-container-replicator", "/etc/swift/container-server.conf", "-v" >>),
          Container("container-updater", s.ContainerImageContainer, << >>, m,
                    << "/usr/bin/swift-container-replicator", "/etc/swift/container-server.conf", "-v" >>),
          Container("object-server", s.ContainerImageObject,
                    getPorts(ObjectServerPort, "object"), m,
                    << "/usr/bin/swift-object-server", "/etc/swift/object-server.conf", "-v" >>),
          Container("object-replicator", s.ContainerImageObject, << >>, m,
                    << "/usr/bin/swift-object-replicator", "/etc/swift/object-server.conf", "-v" >>),
          Container("object-auditor", s.ContainerImageObject, << >>, m,
                    << "/usr/bin/swift-object-replicator", "/etc/swift/object-server.conf", "-v" >>),
          Container("object-updater", s.ContainerImageObject, << >>, m,
                    << "/usr/bin/swift-object-replicator", "/etc/swift/object-server.conf", "-v" >>),
          Container("object-expirer", s.ContainerImageProxy, << >>, m,
                    << "/usr/bin/swift-object-expirer", "/etc/swift/object-expirer.conf", "-v" >>),
          Container("rsync", s.ContainerImageObject,
                    getPorts(RsyncPort, "rsync"), m,
                    << "/usr/bin/rsync", "--daemon", "--no-detach",
                       "--config=/etc/swift/rsyncd.conf", "--log-file=/dev/stdout" >>),
          Container("memcached", s.ContainerImageMemcached,
                    getPorts(MemcachedPort, "memcached"), << >>,
                    << "/usr/bin/memcached", "-p", "11211", "-u", "memcached" >>) >>

\* The Spec literal of the StatefulSet (the fields below Spec:).
StorageStatefulSetSpec(swiftstorage, labels) ==
    [ServiceName |-> swiftstorage.Name,
     Selector |-> labels,
     Replicas |-> swiftstorage.Spec.Replicas,
     Template |->
       [Labels |-> labels,
        SecurityContext |->
          [FSGroup |-> RunAsUser,
           FSGroupChangePolicy |-> "OnRootMismatch",
           Sysctls |-> << [Name |-> "net.ipv4.ip_unprivileged_port_start",
                           Value |-> "873"] >>,
           RunAsNonRoot |-> TRUE,
           SeccompProfile |-> "RuntimeDefault"],
        Volumes |-> getStorageVolumes(swiftstorage),
        InitContainers |-> getStorageInitContainers(swiftstorage),
        Containers |-> getStorageContainers(swiftstorage)],
     VolumeClaimTemplates |->
       << [Name |-> "srv",
           StorageClassName |-> swiftstorage.Spec.StorageClassName,
           AccessModes |-> << "ReadWriteOnce" >>,
           Requests |-> [storage |-> "1Gi"]] >>]

\* Slip: the replica count is clamped to at least one.
getStorageStatefulSetClamped(swiftstorage, labels) ==
    [ObjectMeta |-> [Name |-> swiftstorage.Name,
                     Namespace |-> swiftstorage.Namespace,
                     Labels |-> labels],
     Spec |-> [StorageStatefulSetSpec(swiftstorage, labels) EXCEPT
                 !.Replicas = IF @ < 1 THEN 1 ELSE @]]

\* Slip: the StatefulSet is put into a fixed namespace.
getStorageStatefulSetFixedNamespace(swiftstorage, labels) ==
    [ObjectMeta |-> [Name |-> swiftstorage.Name,
                     Namespace |-> "ns1",
                     Labels |-> labels],
     Spec |-> StorageStatefulSetSpec(swiftstorage, labels)]

getStorageStatefulSet(swiftstorage, labels) ==
    [ObjectMeta |-> [Name |-> swiftstorage.Name,
                     Namespace |-> swiftstorage.Namespace,
                     Labels |-> labels],
     Spec |-> StorageStatefulSetSpec(swiftstorage, labels)]

\* ------------------------------------------------------------------------
\* ctrl.Result and what a pass returns
\* ------------------------------------------------------------------------

\* ctrl.Result{}
EmptyResult == [Requeue |-> FALSE, RequeueAfter |-> 0]

\* What the applier answers for the error err of the create-or-patch it
\* ran (Nil: none), by the design's outcomes: Created, Unchanged and
\* Patched are an empty result without error; a patch rejected as
\* conflicting is Retry, a request to requeue at once without error; any
\* other error is handed on as it is.
CreateOrPatchReturn(err) ==
    IF err = Nil THEN [Result |-> EmptyResult, Err |-> Nil]
    ELSE IF err = "Conflict"
         THEN [Result |-> [Requeue |-> TRUE, RequeueAfter |-> 0], Err |-> Nil]
         ELSE [Result |-> EmptyResult, Err |-> err]

\* Slip: a result of the applier that comes without error is taken for
\* success, the branch for a non-empty result being left out.
ReconcileReturnDropsResult(ctrlResult, err) ==
    IF err # Nil THEN [Result |-> ctrlResult, Err |-> err]
    ELSE [Result |-> EmptyResult, Err |-> Nil]

\* Slip: every pass without error asks for an immediate requeue.
ReconcileReturnRequeues(ctrlResult, err) ==
    IF err # Nil THEN [Result |-> ctrlResult, Err |-> err]
    ELSE [Result |-> [Requeue |-> TRUE, RequeueAfter |-> 0], Err |-> Nil]

\* Slip: the error is replaced by a generic one.
ReconcileReturnWrapsError(ctrlResult, err) ==
    IF err # Nil THEN [Result |-> ctrlResult, Err |-> "ReconcileFailed"]
    ELSE [Result |-> ctrlResult, Err |-> Nil]

\* The tail of Reconcile: from (ctrlResult, err) of sset.CreateOrPatch to
\* what Reconcile returns.
ReconcileReturn(ctrlResult, err) ==
    IF err # Nil THEN [Result |-> ctrlResult, Err |-> err]
    ELSE IF ctrlResult # EmptyResult THEN [Result |-> ctrlResult, Err |-> Nil]
    ELSE [Result |-> EmptyResult, Err |-> Nil]

\* The scheduling directive the work queue reads off a return value.
Outcome(ret) ==
    IF ret.Err # Nil THEN "RequeueError"
    ELSE IF ret.Result.Requeue THEN "RequeueNow"
    ELSE IF ret.Result.RequeueAfter > 0 THEN "RequeueAfter"
    ELSE "Done"

\* ------------------------------------------------------------------------
\* The applier: what CreateOrPatch does to the StatefulSet
\*
\* Reconcile hands the synthesized StatefulSet and the helper (client and
\* owner) to sset.CreateOrPatch and gets (ctrl.Result, error) back.  The
\* applier is not part of the controller's file; it is modelled as the
\* design describes it: it looks the StatefulSet up by the target's
\* namespace and name; creates it, owned by the SwiftStorage, when there is
\* none; does nothing when the fields the controller manages are those of
\* the target; and otherwise sends a merge patch that carries the fields
\* the controller manages and nothing else.
\* ------------------------------------------------------------------------

KeyOf(obj) == [Namespace |-> obj.ObjectMeta.Namespace, Name |-> obj.ObjectMeta.Name]

\* The StatefulSet the applier starts from when the cluster holds none:
\* only name and namespace are set.
BlankStatefulSet(target) ==
    [ObjectMeta |-> [Name |-> target.ObjectMeta.Name,
                     Namespace |-> target.ObjectMeta.Namespace,
                     Labels |-> ""],
     Owner |-> None,
     Spec |-> None,
     Status |-> "unset"]

\* The object obj with the fields the controller manages set from the
\* target: the labels, the Spec, and the ownership edge to owner.
Mutate(obj, target, owner) ==
    [obj EXCEPT !.ObjectMeta.Labels = target.ObjectMeta.Labels,
                !.Spec = target.Spec,
                !.Owner = owner]

\* The server applying, to the object cur it holds now, the merge patch
\* that carries the managed fields of after: everything else stays as the
\* server has it.
ApplyMergePatch(cur, after) ==
    [cur EXCEPT !.ObjectMeta.Labels = after.ObjectMeta.Labels,
                !.Spec = after.Spec,
                !.Owner = after.Owner]

\* ------------------------------------------------------------------------
\* State
\* ------------------------------------------------------------------------

VARIABLES
    desired,   \* the SwiftStorage records: identity -> spec, or None
    status,    \* the status sub-resource of each SwiftStorage record
    store,     \* the StatefulSets of the cluster: key -> object, or None
    pc,        \* where the pass of each identity stands
    instance,  \* the SwiftStorage the pass fetched
    sset,      \* the StatefulSet the pass synthesized
    obs,       \* the StatefulSet the applier read, None when it found none
    result,    \* what the last finished pass returned, None before any
    pass,      \* record of the running (or last) pass: calls made, outcome
    queue,     \* the identities the work queue holds a request for
    events     \* external events so far

vars == << desired, status, store, pc, instance, sset, obs, result, pass,
           queue, events >>

\* The status of a SwiftStorage nobody has written conditions to.
NoConditions == << >>

\* The record of a pass that has done nothing yet.
FreshPass ==
    [fetch |-> "none", synth |-> FALSE, calls |-> {}, op |-> "none",
     raced |-> FALSE, failed |-> "none", err |-> Nil]

\* A StatefulSet as an earlier pass for identity id and spec s left it.
Applied(id, s) ==
    Mutate(BlankStatefulSet(getStorageStatefulSet(SwiftStorage(id, s), GetLabelsStorage)),
           getStorageStatefulSet(SwiftStorage(id, s), GetLabelsStorage), id)

TypeOK ==
    /\ desired \in [Ids -> SpecValues \cup {None}]
    /\ status \in [Ids -> {NoConditions}]
    /\ DOMAIN store = Keys
    /\ pc \in [Ids -> {"idle", "Fetching", "Applying", "Observed"}]
    /\ queue \subseteq Ids
    /\ events \in 0..MaxEvents

\* No StatefulSet yet, every SwiftStorage present, nothing running; the
\* controller has started and its watch has queued every SwiftStorage.
Init ==
    /\ desired = [id \in Ids |-> InitialSpec]
    /\ status = [id \in Ids |-> NoConditions]
    /\ store = [k \in Keys |-> None]
    /\ pc = [id \in Ids |-> "idle"]
    /\ instance = [id \in Ids |-> None]
    /\ sset = [id \in Ids |-> None]
    /\ obs = [id \in Ids |-> None]
    /\ result = [id \in Ids |-> None]
    /\ pass = [id \in Ids |-> FreshPass]
    /\ queue = Ids
    /\ events = 0

\* ------------------------------------------------------------------------
\* The environment: users, other writers, the garbage collector
\* ------------------------------------------------------------------------

\* For(&SwiftStorage{}).Owns(&StatefulSet{}): a change of a StatefulSet
\* queues a request for the SwiftStorage that owns it.
Owners(obj) == IF obj.Owner \in Ids THEN {obj.Owner} ELSE {}

\* What the work queue does with the identity of a pass that returned
\* ret: an error or a requeue puts it back.
Requeued(id, ret) == IF Outcome(ret) = "Done" THEN {} ELSE {id}

\* A user creates the SwiftStorage id or replaces its spec.
UserApply(id, s) ==
    /\ events < MaxEvents
    /\ desired[id] # s
    /\ desired' = [desired EXCEPT ![id] = s]
    /\ queue' = queue \cup {id}
    /\ events' = events + 1
    /\ UNCHANGED << status, store, pc, instance, sset, obs, result, pass >>

\* A user deletes the SwiftStorage id.
UserDelete(id) ==
    /\ events < MaxEvents
    /\ desired[id] # None
    /\ desired' = [desired EXCEPT ![id] = None]
    /\ queue' = queue \cup {id}
    /\ events' = events + 1
    /\ UNCHANGED << status, store, pc, instance, sset, obs, result, pass >>

\* The cluster's garbage collector removes a StatefulSet whose owner is gone.
GarbageCollect(k) ==
    /\ store[k] # None
    /\ store[k].Owner \in Ids
    /\ desired[store[k].Owner] = None
    /\ store' = [store EXCEPT ![k] = None]
    /\ queue' = queue \cup Owners(store[k])
    /\ UNCHANGED << desired, status, pc, instance, sset, obs, result, pass,
                    events >>

\* Somebody scales the StatefulSet k by hand: a field the controller sets.
ExternalScale(k, r) ==
    /\ events < MaxEvents
    /\ store[k] # None
    /\ store[k].Spec.Replicas # r
    /\ store' = [store EXCEPT ![k].Spec.Replicas = r]
    /\ queue' = queue \cup Owners(store[k])
    /\ events' = events + 1
    /\ UNCHANGED << desired, status, pc, instance, sset, obs, result, pass >>

\* The StatefulSet controller writes the status of k: a field the
\* reconciler never sets.
ExternalStatus(k) ==
    /\ events < MaxEvents
    /\ store[k] # None
    /\ store[k].Status # "updated"
    /\ store' = [store EXCEPT ![k].Status = "updated"]
    /\ queue' = queue \cup Owners(store[k])
    /\ events' = events + 1
    /\ UNCHANGED << desired, status, pc, instance, sset, obs, result, pass >>

\* ------------------------------------------------------------------------
\* A pass of Reconcile
\* ------------------------------------------------------------------------

\* Slip: a pass that ends in an error writes a condition to the status.
EndPassReportsStatus(id, ret, p, touched) ==
    /\ pc' = [pc EXCEPT ![id] = "idle"]
    /\ result' = [result EXCEPT ![id] = ret]
    /\ pass' = [pass EXCEPT ![id] = p]
    /\ instance' = [instance EXCEPT ![id] = None]
    /\ sset' = [sset EXCEPT ![id] = None]
    /\ obs' = [obs EXCEPT ![id] = None]
    /\ status' = [status EXCEPT ![id] =
                    IF ret.Err # Nil
                    THEN << [Type |-> "Ready", Status |-> "False",
                             Message |-> ret.Err] >>
                    ELSE @]
    /\ queue' = (queue \cup Requeued(id, ret)) \cup touched
    /\ UNCHANGED << desired, events >>

\* Reconcile returns ret: the pass is over, its locals are gone, and the
\* SwiftStorage record is as it was (Reconcile writes neither the record
\* nor its status).  touched: the owners of the StatefulSets this step
\* wrote, which the watch queues.
EndPass(id, ret, p, touched) ==
    /\ pc' = [pc EXCEPT ![id] = "idle"]
    /\ result' = [result EXCEPT ![id] = ret]
    /\ pass' = [pass EXCEPT ![id] = p]
    /\ instance' = [instance EXCEPT ![id] = None]
    /\ sset' = [sset EXCEPT ![id] = None]
    /\ obs' = [obs EXCEPT ![id] = None]
    /\ queue' = (queue \cup Requeued(id, ret)) \cup touched
    /\ UNCHANGED << desired, status, events >>

\* The work queue hands req = id to Reconcile; one pass per identity at a
\* time, and only for an identity it holds a request for.
Start(id) ==
    /\ pc[id] = "idle"
    /\ id \in queue
    /\ queue' = queue \ {id}
    /\ pc' = [pc EXCEPT ![id] = "Fetching"]
    /\ pass' = [pass EXCEPT ![id] = FreshPass]
    /\ result' = [result EXCEPT ![id] = None]
    /\ UNCHANGED << desired, status, store, instance, sset, obs, events >>

\* Slip: a SwiftStorage that is not found is reported as an error.
FetchNotFoundAsError(id) ==
    /\ pc[id] = "Fetching"
    /\ desired[id] = None
    /\ EndPass(id, [Result |-> EmptyResult, Err |-> "NotFound"],
               [pass[id] EXCEPT !.fetch = "notfound", !.calls = @ \cup {"get"}], {})
    /\ UNCHANGED store

\* r.Get finds no SwiftStorage: return ctrl.Result{}, nil.
FetchNotFound(id) ==
    /\ pc[id] = "Fetching"
    /\ desired[id] = None
    /\ EndPass(id, [Result |-> EmptyResult, Err |-> Nil],
               [pass[id] EXCEPT !.fetch = "notfound", !.calls = @ \cup {"get"}], {})
    /\ UNCHANGED store

\* r.Get fails with another error e: return ctrl.Result{}, err.
FetchError(id, e) ==
    /\ pc[id] = "Fetching"
    /\ EndPass(id, [Result |-> EmptyResult, Err |-> e],
               [pass[id] EXCEPT !.fetch = "error", !.calls = @ \cup {"get"},
                                !.failed = "get", !.err = e], {})
    /\ UNCHANGED store

\* r.Get succeeds, the helper is built, the StatefulSet is synthesized and
\* handed to CreateOrPatch, which is about to read the cluster.
FetchOk(id) ==
    /\ pc[id] = "Fetching"
    /\ desired[id] # None
    /\ instance' = [instance EXCEPT ![id] = SwiftStorage(id, desired[id])]
    /\ sset' = [sset EXCEPT ![id] =
                  getStorageStatefulSet(SwiftStorage(id, desired[id]), GetLabelsStorage)]
    /\ pass' = [pass EXCEPT ![id].fetch = "found", ![id].synth = TRUE,
                            ![id].calls = @ \cup {"get"}]
    /\ pc' = [pc EXCEPT ![id] = "Applying"]
    /\ UNCHANGED << desired, status, store, obs, result, queue, events >>

\* r.Get succeeds and helper.NewHelper fails: return ctrl.Result{}, err.
HelperError(id) ==
    /\ pc[id] = "Fetching"
    /\ desired[id] # None
    /\ EndPass(id, [Result |-> EmptyResult, Err |-> "HelperError"],
               [pass[id] EXCEPT !.fetch = "found", !.calls = @ \cup {"get"}], {})
    /\ UNCHANGED store

\* CreateOrPatch reads the StatefulSet of the target's name and finds it.
ApplyGetFound(id) ==
    /\ pc[id] = "Applying"
    /\ store[KeyOf(sset[id])] # None
    /\ obs' = [obs EXCEPT ![id] = store[KeyOf(sset[id])]]
    /\ pass' = [pass EXCEPT ![id].calls = @ \cup {"get-sts"}]
    /\ pc' = [pc EXCEPT ![id] = "Observed"]
    /\ UNCHANGED << desired, status, store, instance, sset, result, queue, events >>

\* CreateOrPatch reads the StatefulSet and the cluster holds none.
ApplyGetNotFound(id) ==
    /\ pc[id] = "Applying"
    /\ store[KeyOf(sset[id])] = None
    /\ obs' = [obs EXCEPT ![id] = None]
    /\ pass' = [pass EXCEPT ![id].calls = @ \cup {"get-sts"}]
    /\ pc' = [pc EXCEPT ![id] = "Observed"]
    /\ UNCHANGED << desired, status, store, instance, sset, result, queue, events >>

\* The end of a pass whose create-or-patch ended with error err at call:
\* Reconcile returns what it makes of the applier's answer.
ApplyFailed(id, call, err) ==
    LET r == CreateOrPatchReturn(err)
    IN EndPass(id, ReconcileReturn(r.Result, r.Err),
               [pass[id] EXCEPT !.calls = @ \cup {call}, !.failed = call,
                                !.err = err], {})

\* The read of the StatefulSet fails with e.
ApplyGetError(id, e) ==
    /\ pc[id] = "Applying"
    /\ ApplyFailed(id, "get-sts", e)
    /\ UNCHANGED store

\* No StatefulSet was found: it is created from the target, owned by the
\* SwiftStorage.
ApplyCreate(id) ==
    /\ pc[id] = "Observed"
    /\ obs[id] = None
    /\ store[KeyOf(sset[id])] = None
    /\ store' = [store EXCEPT ![KeyOf(sset[id])] =
                   Mutate(BlankStatefulSet(sset[id]), sset[id],
                          [Namespace |-> instance[id].Namespace,
                           Name |-> instance[id].Name])]
    /\ LET r == CreateOrPatchReturn(Nil)
       IN EndPass(id, ReconcileReturn(r.Result, r.Err),
                  [pass[id] EXCEPT !.calls = @ \cup {"create"}, !.op = "created"],
                  Owners(store'[KeyOf(sset[id])]))

\* The create fails with e.
ApplyCreateError(id, e) ==
    /\ pc[id] = "Observed"
    /\ obs[id] = None
    /\ ApplyFailed(id, "create", e)
    /\ UNCHANGED store

\* The object the applier ends with, from the one it read.
Mutated(id) ==
    Mutate(obs[id], sset[id],
           [Namespace |-> instance[id].Namespace, Name |-> instance[id].Name])

\* Slip: a patch is sent although nothing differs.
ApplyUnchangedPatches(id) ==
    /\ pc[id] = "Observed"
    /\ obs[id] # None
    /\ Mutated(id) = obs[id]
    /\ UNCHANGED store
    /\ LET r == CreateOrPatchReturn(Nil)
       IN EndPass(id, ReconcileReturn(r.Result, r.Err),
                  [pass[id] EXCEPT !.calls = @ \cup {"patch"}, !.op = "patched"],
                  Owners(store[KeyOf(sset[id])]))

\* The StatefulSet read already is what the applier would make it: no call.
ApplyUnchanged(id) ==
    /\ pc[id] = "Observed"
    /\ obs[id] # None
    /\ Mutated(id) = obs[id]
    /\ UNCHANGED store
    /\ LET r == CreateOrPatchReturn(Nil)
       IN EndPass(id, ReconcileReturn(r.Result, r.Err),
                  [pass[id] EXCEPT !.op = "unchanged"], {})

\* Slip: the StatefulSet as the pass read and changed it is written back
\* whole.
ApplyPatchOverwrites(id) ==
    /\ pc[id] = "Observed"
    /\ obs[id] # None
    /\ Mutated(id) # obs[id]
    /\ store[KeyOf(sset[id])] # None
    /\ store' = [store EXCEPT ![KeyOf(sset[id])] = Mutated(id)]
    /\ LET r == CreateOrPatchReturn(Nil)
       IN EndPass(id, ReconcileReturn(r.Result, r.Err),
                  [pass[id] EXCEPT !.calls = @ \cup {"patch"}, !.op = "patched",
                                   !.raced = store[KeyOf(sset[id])] # obs[id]],
                  Owners(store'[KeyOf(sset[id])]))

\* The StatefulSet read differs in a managed field: the merge patch is
\* sent and the server applies it to the object it holds (raced: that
\* object is no longer the one the pass read).
ApplyPatch(id) ==
    /\ pc[id] = "Observed"
    /\ obs[id] # None
    /\ Mutated(id) # obs[id]
    /\ store[KeyOf(sset[id])] # None
    /\ store' = [store EXCEPT ![KeyOf(sset[id])] =
                   ApplyMergePatch(@, Mutated(id))]
    /\ LET r == CreateOrPatchReturn(Nil)
       IN EndPass(id, ReconcileReturn(r.Result, r.Err),
                  [pass[id] EXCEPT !.calls = @ \cup {"patch"}, !.op = "patched",
                                   !.raced = store[KeyOf(sset[id])] # obs[id]],
                  Owners(store'[KeyOf(sset[id])]))

\* The StatefulSet was removed after it was read: the patch is answered
\* NotFound, an error like any other.
ApplyPatchNotFound(id) ==
    /\ pc[id] = "Observed"
    /\ obs[id] # None
    /\ Mutated(id) # obs[id]
    /\ store[KeyOf(sset[id])] = None
    /\ ApplyFailed(id, "patch", "NotFound")
    /\ UNCHANGED store

\* The StatefulSet was modified after it was read and the server rejects
\* the patch as conflicting: the applier answers Retry.
ApplyPatchConflict(id) ==
    /\ pc[id] = "Observed"
    /\ obs[id] # None
    /\ Mutated(id) # obs[id]
    /\ store[KeyOf(sset[id])] # None
    /\ store[KeyOf(sset[id])] # obs[id]
    /\ ApplyFailed(id, "patch", "Conflict")
    /\ UNCHANGED store

\* The patch fails with e.
ApplyPatchError(id, e) ==
    /\ pc[id] = "Observed"
    /\ obs[id] # None
    /\ Mutated(id) # obs[id]
    /\ ApplyFailed(id, "patch", e)
    /\ UNCHANGED store

\* ------------------------------------------------------------------------
\* Specifications
\* ------------------------------------------------------------------------

\* The steps of a pass in a cluster where no call fails and nobody else
\* writes.
QuietStep(id) ==
    \/ Start(id)
    \/ FetchOk(id)
    \/ ApplyGetFound(id)
    \/ ApplyGetNotFound(id)
    \/ ApplyCreate(id)
    \/ ApplyUnchanged(id)
    \/ ApplyPatch(id)

\* The steps of a pass that meets a missing object or a failing call.
FailStep(id) ==
    \/ FetchNotFound(id)
    \/ ApplyPatchNotFound(id)
    \/ HelperError(id)
    \/ ApplyPatchConflict(id)
    \/ \E e \in TransportErrors :
         \/ FetchError(id, e)
         \/ ApplyGetError(id, e)
         \/ ApplyCreateError(id, e)
         \/ ApplyPatchError(id, e)

Environment ==
    \/ \E id \in Ids, s \in SpecValues : UserApply(id, s)
    \/ \E id \in Ids : UserDelete(id)
    \/ \E k \in Keys : GarbageCollect(k)
    \/ \E k \in Keys, r \in {0} : ExternalScale(k, r)
    \/ \E k \in Keys : ExternalStatus(k)

Next ==
    \/ \E id \in Ids : QuietStep(id)
    \/ \E id \in Ids : FailStep(id)
    \/ Environment

Spec == Init /\ [][Next]_vars

\* A quiet cluster: the SwiftStorage records are fixed, each StatefulSet is
\* absent or as an earlier pass left it for some earlier spec, no call
\* fails, nobody else writes, and the work queue runs every request it
\* holds.
InitQuiet ==
    /\ desired \in [Ids -> SpecValues]
    /\ status = [id \in Ids |-> NoConditions]
    /\ \E old \in [Ids -> SpecValues \cup {None}] :
         store = [k \in Keys |->
                    IF k \in Ids /\ old[k] # None THEN Applied(k, old[k])
                    ELSE None]
    /\ pc = [id \in Ids |-> "idle"]
    /\ instance = [id \in Ids |-> None]
    /\ sset = [id \in Ids |-> None]
    /\ obs = [id \in Ids |-> None]
    /\ result = [id \in Ids |-> None]
    /\ pass = [id \in Ids |-> FreshPass]
    /\ queue = Ids
    /\ events = 0

NextQuiet == \E id \in Ids : QuietStep(id)

SpecQuiet ==
    InitQuiet /\ [][NextQuiet]_vars /\ \A id \in Ids : WF_vars(QuietStep(id))

\* ------------------------------------------------------------------------
\* Properties
\* ------------------------------------------------------------------------

Idle(id) == pc[id] = "idle"

\* The pass of id is over and has returned.
Returned(id) == Idle(id) /\ result[id] # None

\* The StatefulSet synthesized from the SwiftStorage record id as it is now.
Target(id) == getStorageStatefulSet(SwiftStorage(id, desired[id]), GetLabelsStorage)

\* The cluster holds the StatefulSet of id with the Spec of its target.
InSync(id) ==
    /\ desired[id] # None
    /\ store[id] # None
    /\ store[id].Spec = Target(id).Spec

\* The last step of a pass of id: its write, or the decision not to write.
Finishes(id) == pc[id] = "Observed" /\ pc'[id] = "idle"

\* C1: a pass whose patch was rejected with a conflict ends in RequeueNow:
\* Reconcile returns a request to requeue at once and no error, so the
\* pass ends neither in RequeueError nor in Done, and the work queue holds
\* the identity again.
C1_ConflictRequeuesNow ==
    \A id \in Ids :
        (Returned(id) /\ pass[id].failed = "patch" /\ pass[id].err = "Conflict")
            => /\ Outcome(result[id]) = "RequeueNow"
               /\ result[id].Err = Nil
               /\ Outcome(result[id]) \notin {"RequeueError", "Done"}
               /\ id \in queue

C1_Witness ==
    \E id \in Ids :
        /\ Returned(id)
        /\ pass[id].failed = "patch"
        /\ pass[id].err = "Conflict"

\* C2: a pass that does not find its SwiftStorage ends at once in Done
\* (empty result, nil error): nothing was synthesized and the only call of
\* the pass is the fetch, so no StatefulSet was read, created or patched.
C2_NotFoundEndsDone ==
    \A id \in Ids :
        pass[id].fetch = "notfound"
            => /\ Returned(id)
               /\ result[id] = [Result |-> EmptyResult, Err |-> Nil]
               /\ Outcome(result[id]) = "Done"
               /\ ~pass[id].synth
               /\ pass[id].calls = {"get"}
               /\ pass[id].op = "none"

C2_Witness ==
    \E id \in Ids :
        /\ pass[id].fetch = "notfound"
        /\ Returned(id)
        /\ desired[id] = None

\* The pass of id has ended in Done and the cluster holds, under the
\* namespace and name of id, a StatefulSet with the Spec of the target.
Converged(id) ==
    /\ Returned(id)
    /\ Outcome(result[id]) = "Done"
    /\ InSync(id)
    /\ KeyOf(store[id]) = id
    /\ store[id].Owner = id

\* C3: in a quiet cluster, an identity that starts without a StatefulSet
\* reaches, and then stays in, the state where its pass has ended in Done
\* and its StatefulSet has the Spec synthesized from its SwiftStorage.
C3_Convergence ==
    \A id \in Ids : (store[id] = None) => <>[]Converged(id)

C3_Witness ==
    \E id \in Ids :
        /\ Converged(id)
        /\ pass[id].op = "unchanged"
        /\ id \notin queue
        /\ store[id].Spec.Replicas = -1

\* C4: in a quiet cluster no identity ever has more than one StatefulSet
\* and has exactly one, under its own namespace and name, once a pass has
\* ended in Done; and a pass that comes to its last step while the StatefulSet has the
\* Spec of the target ends Unchanged: the cluster is left as it is and the
\* pass has issued neither a create nor a patch.
C4_Idempotence ==
    /\ [](\A id \in Ids :
            LET owned == {k \in Keys : store[k] # None /\ store[k].Owner = id}
            IN /\ Cardinality(owned) <= 1
               /\ (Returned(id) /\ Outcome(result[id]) = "Done")
                     => owned = {id})
    /\ [][\A id \in Ids :
            (Finishes(id) /\ InSync(id))
                => /\ pass'[id].op = "unchanged"
                   /\ store' = store
                   /\ pass'[id].calls \cap {"create", "patch"} = {}
                   /\ Outcome(result'[id]) = "Done"]_vars

C4_Witness ==
    \E id \in Ids :
        /\ Returned(id)
        /\ InSync(id)
        /\ pass[id].op = "unchanged"
        /\ pass[id].calls = {"get", "get-sts"}

\* The fields of the StatefulSet of id that the controller manages are
\* those of the target synthesized in the pass.
ManagedFieldsOnTarget(obj, id) ==
    /\ obj.Spec = sset[id].Spec
    /\ obj.ObjectMeta.Labels = sset[id].ObjectMeta.Labels
    /\ obj.Owner = id

C6_FailureOnStatus ==
    \A id \in Ids :
        (Returned(id) /\ result[id].Err # Nil)
            => status[id] = << [Type |-> "Ready", Status |-> "False",
                                Message |-> result[id].Err] >>

\* C6, amended: a pass that ended in an error has handed the error to the
\* work queue, which holds the identity again, and the status of the
\* SwiftStorage carries no condition: the failure is visible in the return
\* value of Reconcile only.
C6_FailureOnlyReturned ==
    \A id \in Ids :
        (Returned(id) /\ result[id].Err # Nil)
            => /\ status[id] = NoConditions
               /\ Outcome(result[id]) = "RequeueError"
               /\ id \in queue

C6_Witness ==
    \E id \in Ids :
        /\ Returned(id)
        /\ result[id].Err # Nil
        /\ pass[id].failed = "create"

\* C7: a pass whose apply ended Created, Unchanged or Patched returns the
\* empty ctrl.Result and a nil error, which is Done: the work queue does
\* not put the identity back by itself.
C7_SuccessIsDone ==
    \A id \in Ids :
        (Returned(id) /\ pass[id].op \in {"created", "unchanged", "patched"})
            => /\ result[id] = [Result |-> EmptyResult, Err |-> Nil]
               /\ Outcome(result[id]) = "Done"
               /\ Requeued(id, result[id]) = {}

C7_Witness ==
    \E id1 \in Ids, id2 \in Ids :
        /\ Returned(id1) /\ pass[id1].op = "patched"
        /\ Returned(id2) /\ pass[id2].op = "created"
        /\ Outcome(result[id1]) = "Done"

\* C8: every error of a cluster-API call, but for a conflict on the patch
\* (and NotFound on the fetch, which is no failure of the pass), ends the
\* pass in RequeueError carrying that very error; and a pass whose fetch
\* failed has synthesized nothing and has made no other call.
C8_EveryErrorSurfaces ==
    \A id \in Ids :
        (/\ Returned(id)
         /\ pass[id].failed # "none"
         /\ ~(pass[id].failed = "patch" /\ pass[id].err = "Conflict"))
            => /\ Outcome(result[id]) = "RequeueError"
               /\ result[id].Err = pass[id].err
               /\ pass[id].failed = "get"
                    => /\ ~pass[id].synth
                       /\ pass[id].calls = {"get"}
                       /\ pass[id].op = "none"

C8_Witness ==
    \E id1 \in Ids, id2 \in Ids :
        /\ Returned(id1) /\ pass[id1].failed = "get"
        /\ Outcome(result[id1]) = "RequeueError"
        /\ Returned(id2) /\ pass[id2].failed = "patch"
        /\ pass[id2].err = "NotFound"
        /\ result[id2].Err = "NotFound"

\* The fixed, ordered table of the long-running roles.
RoleTable ==
    << "account-server", "account-replicator", "account-auditor",
       "account-reaper", "container-server", "container-replicator",
       "container-auditor", "container-updater", "object-server",
       "object-replicator", "object-auditor", "object-updater",
       "object-expirer", "rsync", "memcached" >>

\* The volumes of t that come from the config map named ref.
VolumesFrom(t, ref) ==
    { i \in DOMAIN t.Spec.Template.Volumes :
        /\ t.Spec.Template.Volumes[i].VolumeSource.Kind = "ConfigMap"
        /\ t.Spec.Template.Volumes[i].VolumeSource.Ref = ref }

\* The volumes of t named name.
VolumesNamed(t, name) ==
    { i \in DOMAIN t.Spec.Template.Volumes :
        t.Spec.Template.Volumes[i].Name = name }

\* The mounts of the volume named name in the container c.
MountsOf(c, name) ==
    { m \in DOMAIN c.VolumeMounts : c.VolumeMounts[m].Name = name }

\* C9: the StatefulSet a pass synthesized from the SwiftStorage it fetched
\* has the replica count of that SwiftStorage as it is (negative ones too),
\* one volume claim template with its storage class, one init container
\* followed by the containers of the fixed role table in order, and one
\* volume for the ring data, taken from its ring config map and mounted
\* once and read-only in every container that mounts anything; unless the
\* ring config map is named like the config map of the SwiftStorage itself,
\* no other volume comes from it.  The StatefulSet carries the namespace
\* and name of the SwiftStorage.
C9_Synthesis ==
    \A id \in Ids :
        sset[id] # None
            => LET d == instance[id]
                   t == sset[id]
                   tpl == t.Spec.Template
                   all == tpl.InitContainers \o tpl.Containers
                   ring == d.Spec.SwiftRingConfigMap
               IN /\ d = SwiftStorage(id, d.Spec)
                  /\ t.Spec.Replicas = d.Spec.Replicas
                  /\ Len(t.Spec.VolumeClaimTemplates) = 1
                  /\ t.Spec.VolumeClaimTemplates[1].StorageClassName
                        = d.Spec.StorageClassName
                  /\ Len(tpl.InitContainers) = 1
                  /\ [i \in DOMAIN tpl.Containers |-> tpl.Containers[i].Name]
                        = RoleTable
                  /\ Cardinality(VolumesNamed(t, "ring-data")) = 1
                  /\ VolumesNamed(t, "ring-data") \subseteq VolumesFrom(t, ring)
                  /\ ring # d.Name \o "-config-data"
                        => VolumesFrom(t, ring) = VolumesNamed(t, "ring-data")
                  /\ \A c \in DOMAIN all :
                        all[c].VolumeMounts # << >>
                           => /\ Cardinality(MountsOf(all[c], "ring-data")) = 1
                              /\ \A m \in MountsOf(all[c], "ring-data") :
                                   all[c].VolumeMounts[m].ReadOnly
                  /\ KeyOf(t) = id

C9_Witness ==
    \E id \in Ids :
        /\ pc[id] = "Applying"
        /\ instance[id].Spec.Replicas = -1
        /\ sset[id].Spec.Replicas = -1
        /\ instance[id].Spec.SwiftRingConfigMap = instance[id].Name \o "-config-data"

\* C10: a step of the pass of one identity reads the SwiftStorage of that
\* identity only, writes no StatefulSet but the one of its own namespace
\* and name, and leaves the pass of every other identity and every
\* SwiftStorage as they are; and between passes an identity keeps nothing
\* of the last pass but what it returned.
C10_Isolation ==
    /\ [](\A id \in Ids :
            Idle(id) => instance[id] = None /\ sset[id] = None /\ obs[id] = None)
    /\ [][\A id \in Ids :
            pc'[id] # pc[id]
                => /\ \A k \in Keys \ {id} : store'[k] = store[k]
                   /\ \A j \in Ids \ {id} :
                        /\ pc'[j] = pc[j]
                        /\ instance'[j] = instance[j]
                        /\ sset'[j] = sset[j]
                        /\ obs'[j] = obs[j]
                        /\ result'[j] = result[j]
                        /\ pass'[j] = pass[j]
                   /\ desired' = desired
                   /\ status' = status
                   /\ (pc'[id] = "Applying"
                         => /\ instance'[id] = SwiftStorage(id, desired[id])
                            /\ KeyOf(sset'[id]) = id)
                   /\ (pc'[id] = "Observed" => obs'[id] = store[id])
                   /\ (store'[id] # store[id] /\ store'[id] # None
                         => /\ store'[id].Spec = sset[id].Spec
                                \/ store[id] # obs[id]
                            /\ store'[id].Owner = id)]_vars

C10_Witness ==
    \E id1 \in Ids, id2 \in Ids :
        /\ id1 # id2
        /\ pc[id1] = "Observed"
        /\ pc[id2] = "Observed"
        /\ obs[id1] # None
        /\ obs[id2] = None
        /\ desired[id1] # desired[id2]

====
